---- MODULE Spec2Model ----
(***************************************************************************)
(* State-machine model of the response_ungzip HTTP middleware              *)
(* (src/handler.go).  The source file holds two revisions of the handler:  *)
(*   revision 1 (lines 1-198):   the recorder buffers into a pooled        *)
(*                               bytes.Buffer and the body is decoded into *)
(*                               a second pooled buffer;                   *)
(*   revision 2 (lines 200-385): the recorder is built with a nil buffer   *)
(*                               and a nil shouldBuffer function.          *)
(* Strings are sequences of character codes and bodies are sequences of    *)
(* bytes, so that prefix tests, case folding, decimal formatting and the   *)
(* gzip framing are computed, not assumed.                                 *)
(***************************************************************************)
EXTENDS Integers, Sequences, FiniteSets, TLC

(***************************************************************************)
(* Bounds of the model.                                                    *)
(***************************************************************************)
\* longest plaintext payload the downstream stage compresses
MaxLen == 2
\* number of requests served one after the other (pool reuse)
MaxRequests == 2
\* number of bytes.Buffer objects bufPool.New may allocate
MaxBufs == 4

(***************************************************************************)
(* Strings (sequences of ASCII codes).                                     *)
(***************************************************************************)
\* "" : what http.Header.Get returns for a missing header
EmptyStr == << >>
\* "gzip"
S_gzip == <<103,122,105,112>>
\* "GZip"
S_GZip == <<71,90,105,112>>
\* "x-gzip"
S_xgzip == <<120,45,103,122,105,112>>
\* "br"
S_br == <<98,114>>
\* "/api"
S_api == <<47,97,112,105>>
\* "/api/v1"
S_apiv1 == <<47,97,112,105,47,118,49>>
\* "/other"
S_other == <<47,111,116,104,101,114>>
\* "text/"
S_text == <<116,101,120,116,47>>
\* "text/html"
S_texthtml == <<116,101,120,116,47,104,116,109,108>>
\* "hello world"
S_hello == <<104,101,108,108,111,32,119,111,114,108,100>>
\* "req-1"
S_req1 == <<114,101,113,45,49>>
\* "application/json"
S_json == <<97,112,112,108,105,99,97,116,105,111,110,47,106,115,111,110>>

(***************************************************************************)
(* strings and strconv                                                     *)
(***************************************************************************)
\* unicode.ToLower on one ASCII code
LowerChar(c) == IF c >= 65 /\ c <= 90 THEN c + 32 ELSE c

\* strings.ToLower
ToLower(s) == [i \in 1..Len(s) |-> LowerChar(s[i])]

\* strings.HasPrefix(s, prefix)
HasPrefix(s, prefix) ==
    /\ Len(s) >= Len(prefix)
    /\ SubSeq(s, 1, Len(prefix)) = prefix

\* strings.Contains(s, substr)
Contains(s, substr) ==
    \E i \in 0..(Len(s) - Len(substr)) : SubSeq(s, i + 1, i + Len(substr)) = substr

\* strconv.Itoa for n >= 0: the decimal digits of n
RECURSIVE Itoa(_)
Itoa(n) == IF n < 10 THEN <<48 + n>> ELSE Append(Itoa(n \div 10), 48 + (n % 10))

(***************************************************************************)
(* http.Header: a map from header name to its list of values.              *)
(***************************************************************************)
HeaderNames == {"Content-Encoding", "Content-Type", "Content-Length", "X-Request-Id"}

\* a header map with no entries
NoHeaders == [k \in HeaderNames |-> << >>]

\* http.Header.Get: the first value of the key, "" when it has none
Get(h, k) == IF h[k] = << >> THEN EmptyStr ELSE h[k][1]

\* a Del that clears the whole map instead of one key
DelEverything(h, k) == NoHeaders

\* http.Header.Del
Del(h, k) == [h EXCEPT ![k] = << >>]

\* http.Header.Set
Set(h, k, v) == [h EXCEPT ![k] = <<v>>]

\* isGzipped with the case folding left out
isGzippedCaseSensitive(header) == Contains(Get(header, "Content-Encoding"), S_gzip)

\* func isGzipped(header http.Header) bool
isGzipped(header) == Contains(ToLower(Get(header, "Content-Encoding")), S_gzip)

(***************************************************************************)
(* compress/gzip as used by the handler.  The framing is RFC 1952: a ten   *)
(* byte header, a deflate stream, CRC and ISIZE (four bytes each, little   *)
(* endian).  The deflate stream is restricted to stored blocks (RFC 1951   *)
(* BTYPE=00), which is what an encoder emits at compression level 0; the   *)
(* CRC-32 polynomial is replaced by a position-weighted byte sum mod 2^24. *)
(***************************************************************************)
\* ID1 ID2 CM FLG MTIME(4) XFL OS
GzipHeader == <<31, 139, 8, 0, 0, 0, 0, 0, 0, 255>>

\* n as four little-endian bytes
LE32(n) == <<n % 256, (n \div 256) % 256, (n \div 65536) % 256, (n \div 16777216) % 256>>

\* n as two little-endian bytes
LE16(n) == <<n % 256, (n \div 256) % 256>>

RECURSIVE Checksum(_)
\* the digest the trailer carries
Checksum(p) ==
    IF p = << >> THEN 0
    ELSE (Checksum(SubSeq(p, 1, Len(p) - 1)) + Len(p) * (p[Len(p)] + 1)) % 16777216

\* one gzip member holding p in a single final stored block
GzipEncode(p) ==
    GzipHeader
      \o <<1>> \o LE16(Len(p)) \o LE16(65535 - Len(p))
      \o p
      \o LE32(Checksum(p)) \o LE32(Len(p))

\* gzip.Reader.readHeader on the unread bytes b: how many bytes it takes and
\* whether it fails (io.ReadFull of ten bytes, then the magic and method test)
ReadHeader(b) ==
    IF Len(b) = 0 THEN [err |-> "EOF", used |-> 0]
    ELSE IF Len(b) < 10 THEN [err |-> "ErrUnexpectedEOF", used |-> Len(b)]
    ELSE IF b[1] # 31 \/ b[2] # 139 \/ b[3] # 8 THEN [err |-> "ErrHeader", used |-> 10]
    ELSE [err |-> "nil", used |-> 10]

RECURSIVE InflateBlocks(_, _, _)
\* flate's block loop over b from offset pos (bytes already taken), out decoded so far
InflateBlocks(b, pos, out) ==
    IF Len(b) < pos + 1 THEN [err |-> "ErrUnexpectedEOF", used |-> Len(b), out |-> out]
    ELSE LET hdr == b[pos + 1]
             final == hdr % 2 = 1
             btype == (hdr \div 2) % 4
         IN  IF btype # 0 THEN [err |-> "CorruptInputError", used |-> pos + 1, out |-> out]
             ELSE IF Len(b) < pos + 5
                  THEN [err |-> "ErrUnexpectedEOF", used |-> Len(b), out |-> out]
             ELSE LET n == b[pos + 2] + 256 * b[pos + 3]
                      nn == b[pos + 4] + 256 * b[pos + 5]
                  IN  IF nn # 65535 - n
                      THEN [err |-> "CorruptInputError", used |-> pos + 5, out |-> out]
                      ELSE IF Len(b) < pos + 5 + n
                      THEN [err |-> "ErrUnexpectedEOF", used |-> Len(b),
                            out |-> out \o SubSeq(b, pos + 6, Len(b))]
                      ELSE LET out2 == out \o SubSeq(b, pos + 6, pos + 5 + n)
                           IN  IF final
                               THEN [err |-> "nil", used |-> pos + 5 + n, out |-> out2]
                               ELSE InflateBlocks(b, pos + 5 + n, out2)

\* the body of one member after its header: deflate stream, then the trailer
ReadMember(b, pos) ==
    LET f == InflateBlocks(b, pos, << >>)
    IN  IF f.err # "nil" THEN f
        ELSE IF Len(b) < f.used + 8
             THEN [err |-> "ErrUnexpectedEOF", used |-> Len(b), out |-> f.out]
        ELSE IF \/ SubSeq(b, f.used + 1, f.used + 4) # LE32(Checksum(f.out))
                \/ SubSeq(b, f.used + 5, f.used + 8) # LE32(Len(f.out))
             THEN [err |-> "ErrChecksum", used |-> f.used + 8, out |-> f.out]
        ELSE [err |-> "nil", used |-> f.used + 8, out |-> f.out]

RECURSIVE ReadMembers(_, _, _)
\* gzip.Reader.Read until it returns an error, the first header already taken
\* (multistream: after a member, the next header is read; a clean EOF ends it)
ReadMembers(b, pos, out) ==
    LET m == ReadMember(b, pos)
    IN  IF m.err # "nil" THEN [err |-> m.err, used |-> m.used, out |-> out \o m.out]
        ELSE LET h == ReadHeader(SubSeq(b, m.used + 1, Len(b)))
             IN  IF h.err = "EOF"
                 THEN [err |-> "nil", used |-> m.used, out |-> out \o m.out]
                 ELSE IF h.err # "nil"
                 THEN [err |-> h.err, used |-> m.used + h.used, out |-> out \o m.out]
                 ELSE ReadMembers(b, m.used + h.used, out \o m.out)

(***************************************************************************)
(* strconv.ParseInt(s, 10, 64) on the max_size token.                      *)
(***************************************************************************)
IsDigit(c) == c >= 48 /\ c <= 57

RECURSIVE DigitsValue(_)
\* the value of a non-empty string of decimal digits
DigitsValue(s) ==
    IF Len(s) = 1 THEN s[1] - 48
    ELSE 10 * DigitsValue(SubSeq(s, 1, Len(s) - 1)) + (s[Len(s)] - 48)

\* strconv.ParseInt: an optional sign, then one or more digits
ParseInt(s) ==
    LET signed == Len(s) > 0 /\ (s[1] = 45 \/ s[1] = 43)
        digits == IF signed THEN SubSeq(s, 2, Len(s)) ELSE s
    IN  IF Len(digits) = 0 \/ \E i \in 1..Len(digits) : ~IsDigit(digits[i])
        THEN [err |-> "ErrSyntax", val |-> 0]
        ELSE [err |-> "nil",
              val |-> IF signed /\ s[1] = 45 THEN 0 - DigitsValue(digits)
                      ELSE DigitsValue(digits)]

(***************************************************************************)
(* Configuration inputs.                                                   *)
(***************************************************************************)
\* the default the Caddyfile route installs: 10 * 1024 * 1024
DefaultMaxSize == 10 * 1024 * 1024

\* values of the paths setting
PathLists == {<< >>, <<S_apiv1, S_api>>}

\* values of the content_types setting
ContentTypeLists == {<< >>, <<S_text>>}

\* values of max_size a JSON document may carry (absent reads as 0)
JSONMaxSizes == {0 - 1, 0, 24, DefaultMaxSize}

\* max_size tokens of a Caddyfile: "0", "24", "-1", "1k"
MaxSizeTokens == {<<48>>, <<50,52>>, <<45,49>>, <<49,107>>}

\* a subdirective line of the ungzip block: its name and its arguments
Directive(name, args) == [name |-> name, args |-> args]

\* the Caddyfile blocks: an optional path line, an optional content_type line,
\* an optional max_size line, and possibly a line the parser rejects
Caddyfiles ==
    { p \o c \o m \o x :
        p \in {<< >>} \cup {<<Directive("path", a)>> : a \in PathLists},
        c \in {<< >>} \cup {<<Directive("content_type", a)>> : a \in ContentTypeLists},
        m \in {<< >>, <<Directive("max_size", << >>)>>}
                \cup {<<Directive("max_size", <<t>>)>> : t \in MaxSizeTokens},
        x \in {<< >>, <<Directive("gzip_level", <<S_api>>)>>} }

RECURSIVE ParseBlock(_, _)
\* the for d.NextBlock(0) loop of UnmarshalCaddyfile over the lines d, r the
\* fields so far; err is set where the loop returns early
ParseBlock(d, r) ==
    IF d = << >> THEN r
    ELSE LET line == Head(d)
         IN  CASE line.name = "path" ->
                    IF line.args = << >> THEN [r EXCEPT !.err = "ArgErr"]
                    ELSE ParseBlock(Tail(d), [r EXCEPT !.Paths = @ \o line.args])
               [] line.name = "content_type" ->
                    IF line.args = << >> THEN [r EXCEPT !.err = "ArgErr"]
                    ELSE ParseBlock(Tail(d), [r EXCEPT !.ContentTypes = @ \o line.args])
               [] line.name = "max_size" ->
                    IF line.args = << >> THEN [r EXCEPT !.err = "ArgErr"]
                    ELSE LET n == ParseInt(line.args[1])
                         IN  IF n.err # "nil" THEN [r EXCEPT !.err = "invalid max_size"]
                             ELSE ParseBlock(Tail(d), [r EXCEPT !.MaxSize = n.val])
               [] OTHER -> [r EXCEPT !.err = "unknown subdirective"]

\* "Set default max size if not specified" (lines 79-82)
ApplyDefault(r) == IF r.MaxSize = 0 THEN [r EXCEPT !.MaxSize = DefaultMaxSize] ELSE r

\* func (r *ResponseUngzip) UnmarshalCaddyfile: the new fields and the error
UnmarshalCaddyfileResult(d, r) ==
    LET parsed == ParseBlock(d, r)
    IN  IF parsed.err # "nil" THEN parsed ELSE ApplyDefault(parsed)

\* Validate that also rejects zero
ValidateRejectsZero(maxSize) == IF maxSize <= 0 THEN "max_size cannot be negative" ELSE "nil"

\* func (r *ResponseUngzip) Validate() error
ValidateResult(maxSize) == IF maxSize < 0 THEN "max_size cannot be negative" ELSE "nil"

(***************************************************************************)
(* State.                                                                  *)
(***************************************************************************)
\* the request-handling goroutines: net/http runs ServeHTTP on one goroutine
\* per connection
Procs == {1, 2}
\* the one connection whose requests arrive one after the other
Serial == {1}
BufIds == 1..MaxBufs

VARIABLES
    rev,           \* which revision of ServeHTTP the build holds: 1 or 2
    phase,         \* configuration life cycle: "new", "loaded", "provisioned",
                   \*   "serving", "rejected"
    Paths,         \* ResponseUngzip.Paths
    ContentTypes,  \* ResponseUngzip.ContentTypes
    MaxSize,       \* ResponseUngzip.MaxSize
    loadErr,       \* the error the loading or validation step returned
    served,        \* requests accepted so far
    pc,            \* per request goroutine: where ServeHTTP stands
    reqPath,       \* req.URL.Path
    resp,          \* what the downstream stage is going to write
    dsStage,       \* how far the downstream stage got: "start", "header", "body"
    dsCalls,       \* sinks the downstream stage was called with, in order
    dsErr,         \* what next.ServeHTTP returned: "none" until it returns
    w,             \* the real sink (http.ResponseWriter)
    rec,           \* the caddyhttp response recorder
    bufs,          \* the bytes.Buffer objects bufPool.New has made
    allocated,     \* how many of them exist
    pool,          \* the buffers lying in bufPool
    respBuf,       \* the buffer ServeHTTP holds for the recorder (0: none)
    outBuf,        \* the buffer ServeHTTP holds for the decoded bytes (0: none)
    gets,          \* the buffers bufPool.Get gave this request, in order
    puts,          \* the buffers this request gave to bufPool.Put, in order
    flushes,       \* calls of rec.WriteResponse made by ServeHTTP
    ret,           \* what ServeHTTP returned: "none" while it runs
    exit           \* the step at which ServeHTTP returned: "none" while it runs

cfgVars == <<rev, phase, Paths, ContentTypes, MaxSize, loadErr>>
reqVars == <<served, pc, reqPath, resp, dsStage, dsCalls, dsErr, w, rec, bufs,
             allocated, pool, respBuf, outBuf, gets, puts, flushes, ret, exit>>
vars == <<rev, phase, Paths, ContentTypes, MaxSize, loadErr,
          served, pc, reqPath, resp, dsStage, dsCalls, dsErr, w, rec, bufs,
          allocated, pool, respBuf, outBuf, gets, puts, flushes, ret, exit>>

\* a bytes.Buffer: its contents and its read offset
EmptyBuffer == [buf |-> << >>, off |-> 0]

\* an http.ResponseWriter nothing was written to: header is the live header
\* map, status 0 means WriteHeader has not happened, sent is the header map as
\* it was when the status line went out
FreshSink(ok) ==
    [ok |-> ok, header |-> NoHeaders, status |-> 0, sent |-> NoHeaders, body |-> << >>]

\* no recorder
NoRecorder ==
    [made |-> FALSE, buf |-> 0, shouldBuffer |-> FALSE, statusCode |-> 0,
     wroteHeader |-> FALSE, stream |-> FALSE]

\* no response planned
NoResponse == [status |-> 0, header |-> NoHeaders, body |-> << >>]

\* new(ResponseUngzip), no request in flight, empty pool
Init ==
    /\ rev \in {1, 2}
    /\ phase = "new"
    /\ Paths = << >>
    /\ ContentTypes = << >>
    /\ MaxSize = 0
    /\ loadErr = "nil"
    /\ served = 0
    /\ pc = [p \in Procs |-> "idle"]
    /\ reqPath = [p \in Procs |-> EmptyStr]
    /\ resp = [p \in Procs |-> NoResponse]
    /\ dsStage = [p \in Procs |-> "start"]
    /\ dsCalls = [p \in Procs |-> << >>]
    /\ dsErr = [p \in Procs |-> "none"]
    /\ w = [p \in Procs |-> FreshSink(TRUE)]
    /\ rec = [p \in Procs |-> NoRecorder]
    /\ bufs = [b \in BufIds |-> EmptyBuffer]
    /\ allocated = 0
    /\ pool = {}
    /\ respBuf = [p \in Procs |-> 0]
    /\ outBuf = [p \in Procs |-> 0]
    /\ gets = [p \in Procs |-> << >>]
    /\ puts = [p \in Procs |-> << >>]
    /\ flushes = [p \in Procs |-> 0]
    /\ ret = [p \in Procs |-> "none"]
    /\ exit = [p \in Procs |-> "none"]

(***************************************************************************)
(* Configuration: loading, Provision, Validate.                            *)
(***************************************************************************)
\* parseCaddyfile: handler := new(ResponseUngzip); handler.UnmarshalCaddyfile
UnmarshalCaddyfile ==
    /\ phase = "new"
    /\ \E d \in Caddyfiles :
          LET r == UnmarshalCaddyfileResult(d,
                     [Paths |-> Paths, ContentTypes |-> ContentTypes,
                      MaxSize |-> MaxSize, err |-> "nil"])
          IN  /\ Paths' = r.Paths
              /\ ContentTypes' = r.ContentTypes
              /\ MaxSize' = r.MaxSize
              /\ loadErr' = r.err
              /\ phase' = IF r.err = "nil" THEN "loaded" ELSE "rejected"
    /\ UNCHANGED <<rev, reqVars>>

\* the JSON route: the struct tags paths, content_types, max_size are filled
\* from the document, a missing field keeps its zero value
LoadJSON ==
    /\ phase = "new"
    /\ \E ps \in PathLists, cts \in ContentTypeLists, ms \in JSONMaxSizes :
          /\ Paths' = ps
          /\ ContentTypes' = cts
          /\ MaxSize' = ms
    /\ phase' = "loaded"
    /\ UNCHANGED <<rev, loadErr, reqVars>>

\* func (r *ResponseUngzip) Provision(ctx caddy.Context) error { return nil }
Provision ==
    /\ phase = "loaded"
    /\ phase' = "provisioned"
    /\ UNCHANGED <<rev, Paths, ContentTypes, MaxSize, loadErr, reqVars>>

\* func (r *ResponseUngzip) Validate() error; the server serves only when it
\* returned nil
Validate ==
    /\ phase = "provisioned"
    /\ loadErr' = ValidateResult(MaxSize)
    /\ phase' = IF ValidateResult(MaxSize) = "nil" THEN "serving" ELSE "rejected"
    /\ UNCHANGED <<rev, Paths, ContentTypes, MaxSize, reqVars>>

(***************************************************************************)
(* bytes.Buffer                                                            *)
(***************************************************************************)
\* the unread portion b.buf[b.off:]
Unread(b) == SubSeq(b.buf, b.off + 1, Len(b.buf))

\* (*Buffer).Len
BufLen(b) == Len(b.buf) - b.off

\* (*Buffer).Reset
BufReset(b) == EmptyBuffer

\* a buffer taken from bufPool and used as it comes, the Reset left out
ResetMissing(b) == b

\* what ServeHTTP does to a buffer it took from bufPool: respBuf.Reset()
ResetPooled(b) == BufReset(b)

\* (*Buffer).Write
BufWrite(b, data) == [b EXCEPT !.buf = @ \o data]

\* reading n bytes off the front
BufAdvance(b, n) == [b EXCEPT !.off = @ + n]

(***************************************************************************)
(* The real sink: net/http's ResponseWriter.                               *)
(***************************************************************************)
\* WriteHeader: the status line and the header map go out once
SinkWriteHeader(s, code) ==
    IF s.status # 0 THEN s ELSE [s EXCEPT !.status = code, !.sent = s.header]

\* Write: an implicit WriteHeader(200), then the bytes; a broken connection
\* takes nothing and reports an error
SinkWrite(s, data) ==
    LET s1 == SinkWriteHeader(s, 200)
    IN  IF s1.ok THEN [s1 EXCEPT !.body = @ \o data] ELSE s1

\* what the client has received
Delivered(s) == [status |-> s.status, header |-> s.sent, body |-> s.body]

(***************************************************************************)
(* caddyhttp.ResponseRecorder.  st is [rec, w, b]: the recorder, the sink   *)
(* it wraps and the buffer it was given (EmptyBuffer stands in for nil).   *)
(* A recorder made with a nil shouldBuffer never buffers: headers and body *)
(* go straight to the wrapped sink, and Buffer() is the nil it was given.  *)
(***************************************************************************)
\* caddyhttp.NewResponseRecorder(w, buf, shouldBuffer)
NewResponseRecorder(buf, shouldBuffer) ==
    [made |-> TRUE, buf |-> buf, shouldBuffer |-> shouldBuffer, statusCode |-> 0,
     wroteHeader |-> FALSE, stream |-> FALSE]

\* rec.WriteHeader
RecWriteHeader(st, code) ==
    IF st.rec.wroteHeader THEN st
    ELSE LET stream == ~st.rec.shouldBuffer
         IN  [st EXCEPT !.rec = [@ EXCEPT !.statusCode = code, !.wroteHeader = TRUE,
                                          !.stream = stream],
                        !.w = IF stream THEN SinkWriteHeader(@, code) ELSE @]

\* rec.Write
RecWrite(st, data) ==
    LET st1 == RecWriteHeader(st, 200)
    IN  IF st1.rec.stream
        THEN [st1 EXCEPT !.w = SinkWrite(@, data)]
        ELSE [st1 EXCEPT !.b = BufWrite(@, data)]

\* rec.WriteResponse: nothing to do when the response was streamed; else the
\* status line, then io.Copy(w, buf), which is buf.WriteTo(w)
WriteResponse(st) ==
    LET st1 == IF st.rec.statusCode = 0 THEN RecWriteHeader(st, 200) ELSE st
    IN  IF st1.rec.stream THEN [st |-> st1, err |-> "nil"]
        ELSE LET w1 == SinkWriteHeader(st1.w, st1.rec.statusCode)
             IN  IF BufLen(st1.b) = 0
                 THEN [st |-> [st1 EXCEPT !.w = w1, !.b = BufReset(@)], err |-> "nil"]
                 ELSE IF w1.ok
                 THEN [st |-> [st1 EXCEPT !.w = SinkWrite(w1, Unread(st1.b)),
                                          !.b = BufReset(@)],
                       err |-> "nil"]
                 ELSE [st |-> [st1 EXCEPT !.w = w1], err |-> "ErrWrite"]

(***************************************************************************)
(* Requests and downstream responses.                                      *)
(***************************************************************************)
\* request paths: "/api", "/other"
RequestPaths == {S_api, S_other}

\* plaintext payloads: the prefixes of "hello world" up to MaxLen bytes
Payloads == {SubSeq(S_hello, 1, n) : n \in 0..MaxLen}

\* a stream whose magic number is wrong
BadMagic(g) == [g EXCEPT ![2] = 0]

\* a stream cut short by one byte
Truncated(g) == SubSeq(g, 1, Len(g) - 1)

\* a stream whose trailer disagrees with its data
BadTrailer(g) == [g EXCEPT ![Len(g) - 7] = (@ + 1) % 256]

\* a stream followed by a stray byte
Trailing(g) == g \o <<7>>

\* bodies the downstream stage writes: plaintext, gzip streams of one or two
\* members, and damaged streams
Bodies ==
    Payloads
      \cup {GzipEncode(p) : p \in Payloads}
      \cup {GzipEncode(<<104>>) \o GzipEncode(<<105>>)}
      \cup {BadMagic(GzipEncode(p)) : p \in Payloads}
      \cup {f : f \in {Truncated(GzipEncode(S_hello)), BadTrailer(GzipEncode(<<104>>)),
                       Trailing(GzipEncode(<<104>>))}}

\* Content-Encoding values: "gzip", "GZip", "br"; << >> is no header
ContentEncodings == {<< >>, <<S_gzip>>, <<S_GZip>>, <<S_br>>}

\* Content-Type values
ResponseContentTypes == {<<S_texthtml>>, <<S_json>>}

\* a response with the given status, Content-Encoding, Content-Type and body;
\* Content-Length is the length of the body as written, X-Request-Id is fixed
Response(s, ce, ct, b) ==
    [status |-> s,
     header |-> [k \in HeaderNames |->
                   CASE k = "Content-Encoding" -> ce
                     [] k = "Content-Type" -> ct
                     [] k = "Content-Length" -> <<Itoa(Len(b))>>
                     [] OTHER -> <<S_req1>>],
     body |-> b]

\* the responses a downstream stage may produce: 200 with every combination,
\* 404 with a plain and a compressed text body
Responses ==
    {Response(200, ce, ct, b) :
        ce \in ContentEncodings, ct \in ResponseContentTypes, b \in Bodies}
      \cup {Response(404, ce, <<S_texthtml>>, b) :
              ce \in {<< >>, <<S_gzip>>}, b \in {<<104>>, GzipEncode(<<104>>)}}

\* what the downstream stage has written so far, whatever sink it was given
Produced(p) ==
    [status |-> IF dsStage[p] = "start" THEN 0 ELSE resp[p].status,
     header |-> IF dsStage[p] = "start" THEN NoHeaders ELSE resp[p].header,
     body |-> IF dsStage[p] = "body" THEN resp[p].body ELSE << >>]

(***************************************************************************)
(* ServeHTTP, one action per step of the handler.                          *)
(***************************************************************************)
\* for _, path := range r.Paths { if strings.HasPrefix(req.URL.Path, path) ... }
PathMatched(paths, path) == \E i \in 1..Len(paths) : HasPrefix(path, paths[i])

\* the content-type loop matching every value
ContentTypeMatchedAlways(cts, contentType) == TRUE

\* for _, ct := range r.ContentTypes { if strings.HasPrefix(contentType, ct) ... }
ContentTypeMatched(cts, contentType) == \E i \in 1..Len(cts) : HasPrefix(contentType, cts[i])

\* the path gate with the negation dropped: matching paths are handed on
PathExcludedInverted(paths, path) == Len(paths) > 0 /\ PathMatched(paths, path)

\* if len(r.Paths) > 0 { ...; if !matched { return next.ServeHTTP(w, req) } }
PathExcluded(paths, path) == Len(paths) > 0 /\ ~PathMatched(paths, path)

\* the content-type gate: if len(r.ContentTypes) > 0 { ...; if !matched { ... } }
ContentTypeExcluded(cts, contentType) ==
    Len(cts) > 0 /\ ~ContentTypeMatched(cts, contentType)

\* the recorder of request p together with its sink and its buffer
St(p) ==
    [rec |-> rec[p], w |-> w[p],
     b |-> IF rec[p].buf = 0 THEN EmptyBuffer ELSE bufs[rec[p].buf]]

\* a Get that hands out any buffer made so far, checked out or not
GetChoicesAnyBuffer == IF allocated = 0 THEN {1} ELSE 1..allocated

\* bufPool.Get(): a pooled buffer, or a new one when the pool is empty
GetChoices == IF pool # {} THEN pool ELSE {allocated + 1} \cap BufIds

\* the buffers request p holds, which its deferred bufPool.Put calls give back
Held(p) == {respBuf[p], outBuf[p]} \ {0}

\* the deferred calls with the Put of the decode buffer left out
DeferredPutsCaptureOnly(p) == IF respBuf[p] = 0 THEN << >> ELSE <<respBuf[p]>>

\* defer bufPool.Put(respBuf) ... defer bufPool.Put(outBuf): the deferred
\* calls run last in, first out when ServeHTTP returns
DeferredPuts(p) ==
    (IF outBuf[p] = 0 THEN << >> ELSE <<outBuf[p]>>)
      \o (IF respBuf[p] = 0 THEN << >> ELSE <<respBuf[p]>>)

\* ServeHTTP returns err with the recorder, sink and capture buffer as in st
\* and the decode buffer as in ob; the deferred bufPool.Put calls run
Return(p, st, ob, err, flushed) ==
    /\ rec' = [rec EXCEPT ![p] = st.rec]
    /\ w' = [w EXCEPT ![p] = st.w]
    /\ bufs' = [b \in BufIds |->
                  IF b = rec[p].buf THEN st.b
                  ELSE IF b = outBuf[p] THEN ob
                  ELSE bufs[b]]
    /\ flushes' = [flushes EXCEPT ![p] = @ + flushed]
    /\ ret' = [ret EXCEPT ![p] = err]
    /\ exit' = [exit EXCEPT ![p] = pc[p]]
    /\ pc' = [pc EXCEPT ![p] = "done"]
    /\ puts' = [puts EXCEPT ![p] = DeferredPuts(p)]
    /\ pool' = pool \cup {DeferredPuts(p)[i] : i \in 1..Len(DeferredPuts(p))}
    /\ respBuf' = [respBuf EXCEPT ![p] = 0]
    /\ outBuf' = [outBuf EXCEPT ![p] = 0]
    /\ UNCHANGED gets

\* the flush with its result dropped: rec.WriteResponse(); return nil
FlushAndReturnNil(p, st, ob) ==
    Return(p, WriteResponse(st).st, ob, "nil", 1)

\* return rec.WriteResponse()
FlushAndReturn(p, st, ob) ==
    LET wr == WriteResponse(st)
    IN  Return(p, wr.st, ob, wr.err, 1)

\* the decode buffer of request p, when it holds one
OutBuffer(p) == IF outBuf[p] = 0 THEN EmptyBuffer ELSE bufs[outBuf[p]]

\* the step goes on to pc value next and touches nothing else
Goto(p, next) ==
    /\ pc' = [pc EXCEPT ![p] = next]
    /\ UNCHANGED <<w, rec, bufs, pool, respBuf, outBuf, gets, puts, flushes, ret, exit>>

\* a request arrives and ServeHTTP runs up to its call of next.ServeHTTP:
\* the path gate, then (revision 1) bufPool.Get, Reset and the recorder with a
\* shouldBuffer that returns true, or (revision 2) the recorder on nil, nil
PathGate(p) ==
    /\ phase = "serving"
    /\ pc[p] \in {"idle", "done"}
    /\ served < MaxRequests
    /\ served' = served + 1
    /\ \E path \in RequestPaths, ok \in BOOLEAN :
          /\ reqPath' = [reqPath EXCEPT ![p] = path]
          /\ w' = [w EXCEPT ![p] = FreshSink(ok)]
          /\ IF PathExcluded(Paths, path)
             THEN /\ pc' = [pc EXCEPT ![p] = "next_direct"]
                  /\ dsCalls' = [dsCalls EXCEPT ![p] = <<"w">>]
                  /\ rec' = [rec EXCEPT ![p] = NoRecorder]
                  /\ respBuf' = [respBuf EXCEPT ![p] = 0]
                  /\ gets' = [gets EXCEPT ![p] = << >>]
                  /\ UNCHANGED <<bufs, allocated, pool>>
             ELSE /\ pc' = [pc EXCEPT ![p] = "next_rec"]
                  /\ dsCalls' = [dsCalls EXCEPT ![p] = <<"rec">>]
                  /\ IF rev = 1
                     THEN \E b \in GetChoices :
                            /\ bufs' = [bufs EXCEPT ![b] = ResetPooled(@)]
                            /\ allocated' = IF b > allocated THEN b ELSE allocated
                            /\ pool' = pool \ {b}
                            /\ respBuf' = [respBuf EXCEPT ![p] = b]
                            /\ gets' = [gets EXCEPT ![p] = <<b>>]
                            /\ rec' = [rec EXCEPT ![p] = NewResponseRecorder(b, TRUE)]
                     ELSE /\ rec' = [rec EXCEPT ![p] = NewResponseRecorder(0, FALSE)]
                          /\ respBuf' = [respBuf EXCEPT ![p] = 0]
                          /\ gets' = [gets EXCEPT ![p] = << >>]
                          /\ UNCHANGED <<bufs, allocated, pool>>
    /\ resp' = [resp EXCEPT ![p] = NoResponse]
    /\ dsStage' = [dsStage EXCEPT ![p] = "start"]
    /\ outBuf' = [outBuf EXCEPT ![p] = 0]
    /\ puts' = [puts EXCEPT ![p] = << >>]
    /\ flushes' = [flushes EXCEPT ![p] = 0]
    /\ ret' = [ret EXCEPT ![p] = "none"]
    /\ exit' = [exit EXCEPT ![p] = "none"]
    /\ dsErr' = [dsErr EXCEPT ![p] = "none"]
    /\ UNCHANGED cfgVars

\* the downstream stage sets its headers on the sink it was given and writes
\* the status line
DownstreamWriteHeaderOf(p, responses) ==
    /\ pc[p] \in {"next_direct", "next_rec"}
    /\ dsStage[p] = "start"
    /\ \E r \in responses :
          LET st0 == [St(p) EXCEPT !.w = [@ EXCEPT !.header = r.header]]
              st1 == IF pc[p] = "next_direct"
                     THEN [st0 EXCEPT !.w = SinkWriteHeader(@, r.status)]
                     ELSE RecWriteHeader(st0, r.status)
          IN  /\ resp' = [resp EXCEPT ![p] = r]
              /\ w' = [w EXCEPT ![p] = st1.w]
              /\ rec' = [rec EXCEPT ![p] = st1.rec]
    /\ dsStage' = [dsStage EXCEPT ![p] = "header"]
    /\ UNCHANGED <<cfgVars, served, pc, reqPath, dsCalls, dsErr, bufs, allocated,
                   pool, respBuf, outBuf, gets, puts, flushes, ret, exit>>

\* a downstream stage that may produce any of Responses
DownstreamWriteHeader(p) == DownstreamWriteHeaderOf(p, Responses)

\* the downstream stage writes its body
DownstreamWrite(p) ==
    /\ pc[p] \in {"next_direct", "next_rec"}
    /\ dsStage[p] = "header"
    /\ LET st1 == IF pc[p] = "next_direct"
                  THEN [St(p) EXCEPT !.w = SinkWrite(@, resp[p].body)]
                  ELSE RecWrite(St(p), resp[p].body)
       IN  /\ w' = [w EXCEPT ![p] = st1.w]
           /\ rec' = [rec EXCEPT ![p] = st1.rec]
           /\ bufs' = [b \in BufIds |-> IF b = rec[p].buf THEN st1.b ELSE bufs[b]]
    /\ dsStage' = [dsStage EXCEPT ![p] = "body"]
    /\ UNCHANGED <<cfgVars, served, pc, reqPath, resp, dsCalls, dsErr, allocated,
                   pool, respBuf, outBuf, gets, puts, flushes, ret, exit>>

\* next.ServeHTTP returns: with an error at any point, or with nil once the
\* response is written.  Excluded path: return next.ServeHTTP(w, req).
\* Otherwise: if err != nil { return err }, else on to the gzip gate
DownstreamReturn(p) ==
    /\ pc[p] \in {"next_direct", "next_rec"}
    /\ \E err \in {"nil", "ErrDownstream"} :
          /\ err = "nil" => dsStage[p] = "body"
          /\ dsErr' = [dsErr EXCEPT ![p] = err]
          /\ IF pc[p] = "next_direct" \/ err # "nil"
             THEN Return(p, St(p), OutBuffer(p), err, 0)
             ELSE Goto(p, "gzipgate")
    /\ UNCHANGED <<cfgVars, served, reqPath, resp, dsStage, dsCalls, allocated>>

\* if !isGzipped(rec.Header()) { return rec.WriteResponse() }
GzipGate(p) ==
    /\ pc[p] = "gzipgate"
    /\ IF ~isGzipped(w[p].header)
       THEN FlushAndReturn(p, St(p), OutBuffer(p))
       ELSE Goto(p, "ctgate")
    /\ UNCHANGED <<cfgVars, served, reqPath, resp, dsStage, dsCalls, dsErr, allocated>>

\* the content-type gate
ContentTypeGate(p) ==
    /\ pc[p] = "ctgate"
    /\ IF ContentTypeExcluded(ContentTypes, Get(w[p].header, "Content-Type"))
       THEN FlushAndReturn(p, St(p), OutBuffer(p))
       ELSE Goto(p, "sizegate")
    /\ UNCHANGED <<cfgVars, served, reqPath, resp, dsStage, dsCalls, dsErr, allocated>>

\* int64(rec.Buffer().Len()) > r.MaxSize
OverMaxSize(n, maxSize) == n > maxSize

\* the size gate.  In revision 2 rec.Buffer() is the nil the recorder was
\* made with, and Len on a nil *bytes.Buffer is a nil-pointer panic: the
\* handler never gets past this line (lines 348-370 are never run)
SizeGate(p) ==
    /\ pc[p] = "sizegate"
    /\ IF rec[p].buf = 0
       THEN Return(p, St(p), OutBuffer(p), "panic", 0)
       ELSE IF OverMaxSize(BufLen(St(p).b), MaxSize)
       THEN FlushAndReturn(p, St(p), OutBuffer(p))
       ELSE Goto(p, "reader")
    /\ UNCHANGED <<cfgVars, served, reqPath, resp, dsStage, dsCalls, dsErr, allocated>>

\* reader, err := gzip.NewReader(rec.Buffer()): the header is read off the
\* recorder's own buffer; on success outBuf := bufPool.Get(); outBuf.Reset()
OpenReader(p) ==
    /\ pc[p] = "reader"
    /\ LET h == ReadHeader(Unread(St(p).b))
           st1 == [St(p) EXCEPT !.b = BufAdvance(@, h.used)]
       IN  IF h.err # "nil"
           THEN /\ FlushAndReturn(p, st1, OutBuffer(p))
                /\ UNCHANGED allocated
           ELSE \E b \in GetChoices :
                  /\ bufs' = [bufs EXCEPT ![rec[p].buf] = st1.b, ![b] = ResetPooled(bufs[b])]
                  /\ allocated' = IF b > allocated THEN b ELSE allocated
                  /\ pool' = pool \ {b}
                  /\ outBuf' = [outBuf EXCEPT ![p] = b]
                  /\ gets' = [gets EXCEPT ![p] = Append(@, b)]
                  /\ pc' = [pc EXCEPT ![p] = "copy"]
                  /\ UNCHANGED <<w, rec, respBuf, puts, flushes, ret, exit>>
    /\ UNCHANGED <<cfgVars, served, reqPath, resp, dsStage, dsCalls, dsErr>>

\* if _, err := io.Copy(outBuf, reader); err != nil { return rec.WriteResponse() }
\* the reader takes its bytes off the recorder's buffer and the decoded bytes
\* go to outBuf
Copy(p) ==
    /\ pc[p] = "copy"
    /\ LET m == ReadMembers(St(p).b.buf, St(p).b.off, << >>)
           st1 == [St(p) EXCEPT !.b = [@ EXCEPT !.off = m.used]]
           ob == BufWrite(OutBuffer(p), m.out)
       IN  IF m.err # "nil"
           THEN FlushAndReturn(p, st1, ob)
           ELSE /\ bufs' = [bufs EXCEPT ![rec[p].buf] = st1.b, ![outBuf[p]] = ob]
                /\ pc' = [pc EXCEPT ![p] = "rewrite"]
                /\ UNCHANGED <<w, rec, pool, respBuf, outBuf, gets, puts, flushes, ret, exit>>
    /\ UNCHANGED <<cfgVars, served, reqPath, resp, dsStage, dsCalls, dsErr, allocated>>

\* rec.Header().Del("Content-Encoding")
\* rec.Header().Set("Content-Length", strconv.Itoa(outBuf.Len()))
\* return rec.WriteResponse()
Rewrite(p) ==
    /\ pc[p] = "rewrite"
    /\ LET hdr == Set(Del(w[p].header, "Content-Encoding"), "Content-Length",
                      Itoa(BufLen(OutBuffer(p))))
           st1 == [St(p) EXCEPT !.w = [@ EXCEPT !.header = hdr]]
       IN  FlushAndReturn(p, st1, OutBuffer(p))
    /\ UNCHANGED <<cfgVars, served, reqPath, resp, dsStage, dsCalls, dsErr, allocated>>

Next ==
    \/ UnmarshalCaddyfile
    \/ LoadJSON
    \/ Provision
    \/ Validate
    \/ \E p \in Serial :
          \/ PathGate(p)
          \/ DownstreamWriteHeader(p)
          \/ DownstreamWrite(p)
          \/ DownstreamReturn(p)
          \/ GzipGate(p)
          \/ ContentTypeGate(p)
          \/ SizeGate(p)
          \/ OpenReader(p)
          \/ Copy(p)
          \/ Rewrite(p)

Spec == Init /\ [][Next]_vars

\* the initial state of the build that holds revision 1 of the handler
InitRev1 == Init /\ rev = 1

\* the build that holds revision 1 of the handler (lines 1-198)
SpecRev1 == InitRev1 /\ [][Next]_vars

(***************************************************************************)
(* Concurrent requests.  Revision 1 is serving with the settings of an     *)
(* empty Caddyfile block (the state Validate leaves), and both goroutines  *)
(* handle requests against the one bufPool, their steps interleaved.       *)
(***************************************************************************)
\* the responses of the downstream stage under concurrent load
ConcResponses ==
    {Response(200, ce, <<S_texthtml>>, b) :
        ce \in {<< >>, <<S_gzip>>}, b \in {<<104>>, GzipEncode(<<104, 101>>)}}

\* the downstream stage of the concurrent requests
DownstreamWriteHeaderConc(p) == DownstreamWriteHeaderOf(p, ConcResponses)

\* revision 1 after UnmarshalCaddyfile of an empty block, Provision, Validate
InitConc ==
    /\ rev = 1
    /\ phase = "serving"
    /\ Paths = << >>
    /\ ContentTypes = << >>
    /\ MaxSize = DefaultMaxSize
    /\ loadErr = "nil"
    /\ served = 0
    /\ pc = [p \in Procs |-> "idle"]
    /\ reqPath = [p \in Procs |-> EmptyStr]
    /\ resp = [p \in Procs |-> NoResponse]
    /\ dsStage = [p \in Procs |-> "start"]
    /\ dsCalls = [p \in Procs |-> << >>]
    /\ dsErr = [p \in Procs |-> "none"]
    /\ w = [p \in Procs |-> FreshSink(TRUE)]
    /\ rec = [p \in Procs |-> NoRecorder]
    /\ bufs = [b \in BufIds |-> EmptyBuffer]
    /\ allocated = 0
    /\ pool = {}
    /\ respBuf = [p \in Procs |-> 0]
    /\ outBuf = [p \in Procs |-> 0]
    /\ gets = [p \in Procs |-> << >>]
    /\ puts = [p \in Procs |-> << >>]
    /\ flushes = [p \in Procs |-> 0]
    /\ ret = [p \in Procs |-> "none"]
    /\ exit = [p \in Procs |-> "none"]

NextConc ==
    \E p \in Procs :
        \/ PathGate(p)
        \/ DownstreamWriteHeaderConc(p)
        \/ DownstreamWrite(p)
        \/ DownstreamReturn(p)
        \/ GzipGate(p)
        \/ ContentTypeGate(p)
        \/ SizeGate(p)
        \/ OpenReader(p)
        \/ Copy(p)
        \/ Rewrite(p)

SpecConc == InitConc /\ [][NextConc]_vars

(***************************************************************************)
(* ServeHTTP as a function of its inputs, one revision at a time: the      *)
(* settings, the request path, the state of the connection, and what the   *)
(* downstream stage does (the response r it writes, the stage at which it  *)
(* returns and the error it returns).  The result is what the client has   *)
(* received and what ServeHTTP returned.                                   *)
(***************************************************************************)
\* next.ServeHTTP run against st up to the stage at which it returns
DownstreamRun(st, direct, r, stage) ==
    LET st0 == [st EXCEPT !.w = [@ EXCEPT !.header = r.header]]
        st1 == IF direct
               THEN [st0 EXCEPT !.w = SinkWriteHeader(@, r.status)]
               ELSE RecWriteHeader(st0, r.status)
        st2 == IF direct
               THEN [st1 EXCEPT !.w = SinkWrite(@, r.body)]
               ELSE RecWrite(st1, r.body)
    IN  IF stage = "start" THEN st ELSE IF stage = "header" THEN st1 ELSE st2

\* ServeHTTP of revision rv (1: lines 106-174, 2: lines 301-371)
ServeHTTPOutcome(rv, paths, cts, maxSize, path, ok, r, stage, err) ==
    LET Out(s, e) == [delivered |-> Delivered(s.w), ret |-> e]
        Flush(s) == LET wr == WriteResponse(s) IN Out(wr.st, wr.err)
        direct == DownstreamRun([rec |-> NoRecorder, w |-> FreshSink(ok),
                                 b |-> EmptyBuffer], TRUE, r, stage)
        st0 == [rec |-> IF rv = 1 THEN NewResponseRecorder(1, TRUE)
                                  ELSE NewResponseRecorder(0, FALSE),
                w |-> FreshSink(ok), b |-> EmptyBuffer]
        st1 == DownstreamRun(st0, FALSE, r, stage)
        h == ReadHeader(Unread(st1.b))
        st2 == [st1 EXCEPT !.b = BufAdvance(@, h.used)]
        m == ReadMembers(st2.b.buf, st2.b.off, << >>)
        st3 == [st2 EXCEPT !.b = [@ EXCEPT !.off = m.used]]
        hdr == Set(Del(st3.w.header, "Content-Encoding"), "Content-Length",
                   Itoa(Len(m.out)))
        st4 == [st3 EXCEPT !.w = [@ EXCEPT !.header = hdr]]
    IN  IF PathExcluded(paths, path) THEN Out(direct, err)
        ELSE IF err # "nil" THEN Out(st1, err)
        ELSE IF ~isGzipped(st1.w.header) THEN Flush(st1)
        ELSE IF ContentTypeExcluded(cts, Get(st1.w.header, "Content-Type"))
        THEN Flush(st1)
        ELSE IF st1.rec.buf = 0 THEN Out(st1, "panic")
        ELSE IF OverMaxSize(BufLen(st1.b), maxSize) THEN Flush(st1)
        ELSE IF h.err # "nil" THEN Flush(st2)
        ELSE IF m.err # "nil" THEN Flush(st3)
        ELSE Flush(st4)

\* ServeHTTP of revision rv on the inputs request p was handled with
OutcomeOf(rv, p) ==
    ServeHTTPOutcome(rv, Paths, ContentTypes, MaxSize, reqPath[p], w[p].ok,
                     resp[p], dsStage[p], dsErr[p])

(***************************************************************************)
(* Vocabulary of the properties.                                           *)
(***************************************************************************)
\* ServeHTTP has returned (or panicked) for request p
Done(p) == pc[p] = "done"

\* the request path starts with none of the configured prefixes
NoPrefixOf(prefixes, str) == \A i \in 1..Len(prefixes) : ~HasPrefix(str, prefixes[i])

\* request p took the buffering branch and its downstream call returned nil
Captured(p) == Done(p) /\ dsCalls[p] = <<"rec">> /\ dsErr[p] = "nil"

\* the Content-Encoding the downstream stage set holds "gzip" in some letter case
SaysGzip(p) == Contains(ToLower(Get(resp[p].header, "Content-Encoding")), S_gzip)

\* the Content-Type the downstream stage set passes the content-type gate
ContentTypePasses(p) ==
    \/ Len(ContentTypes) = 0
    \/ ~NoPrefixOf(ContentTypes, Get(resp[p].header, "Content-Type"))

\* the body the downstream stage wrote is a gzip stream that decodes in full
DecodesTo(body, plain) ==
    /\ ReadHeader(body).err = "nil"
    /\ ReadMembers(body, 10, << >>).err = "nil"
    /\ ReadMembers(body, 10, << >>).out = plain

\* the body opens or decodes with an error
DecodeFails(body) ==
    \/ ReadHeader(body).err # "nil"
    \/ ReadMembers(body, 10, << >>).err # "nil"

\* the client got exactly what the downstream stage produced
Verbatim(p) == Delivered(w[p]) = Produced(p)

\* nothing has reached the client
NothingSent(p) == Delivered(w[p]) = [status |-> 0, header |-> NoHeaders, body |-> << >>]

(***************************************************************************)
(* C1.  Round trip: when the downstream stage writes gzip(P) with          *)
(* Content-Encoding: gzip and the request passes the path, content-type    *)
(* and size gates, the client receives body P, no Content-Encoding header  *)
(* and Content-Length = len(P) in decimal.                                 *)
(***************************************************************************)
C1_RoundTrip ==
    \A p \in Procs : \A P \in Payloads :
        ( /\ Captured(p)
          /\ w[p].ok
          /\ resp[p].body = GzipEncode(P)
          /\ Get(resp[p].header, "Content-Encoding") = S_gzip
          /\ ContentTypePasses(p)
          /\ Len(resp[p].body) <= MaxSize )
        => /\ Delivered(w[p]).body = P
           /\ Delivered(w[p]).header["Content-Encoding"] = << >>
           /\ Delivered(w[p]).header["Content-Length"] = <<Itoa(Len(P))>>

(***************************************************************************)
(* C2.  Corruption handling: a response that passes the gzip, content-type *)
(* and size gates but whose body does not open or decode as gzip is        *)
(* delivered with its captured status, headers and body unchanged, and     *)
(* ServeHTTP returns no error.                                             *)
(***************************************************************************)
C2_CorruptFallback ==
    \A p \in Procs :
        ( /\ Captured(p)
          /\ w[p].ok
          /\ SaysGzip(p)
          /\ ContentTypePasses(p)
          /\ Len(resp[p].body) <= MaxSize
          /\ DecodeFails(resp[p].body) )
        => /\ Verbatim(p)
           /\ ret[p] = "nil"

(***************************************************************************)
(* C3.  Path exclusion: with Paths non-empty and a request path that       *)
(* starts with none of the prefixes, the downstream stage is called once,  *)
(* with the real sink; there is no recorder and no pool buffer, ServeHTTP  *)
(* flushes nothing itself, returns what the downstream stage returned, and *)
(* the client has exactly what the downstream stage produced.              *)
(***************************************************************************)
C3_PathExclusion ==
    \A p \in Procs :
        ( /\ pc[p] # "idle"
          /\ Len(Paths) > 0
          /\ NoPrefixOf(Paths, reqPath[p]) )
        => /\ dsCalls[p] = <<"w">>
           /\ ~rec[p].made
           /\ Held(p) = {}
           /\ flushes[p] = 0
           /\ Done(p) => (ret[p] = dsErr[p] /\ exit[p] = "next_direct")
           /\ w[p].ok => Verbatim(p)

\* an excluded request for which the downstream stage wrote a gzip body to the
\* real sink and returned nil
C3_Witness ==
    \E p \in Procs :
        /\ Done(p)
        /\ Len(Paths) > 0 /\ NoPrefixOf(Paths, reqPath[p])
        /\ dsCalls[p] = <<"w">>
        /\ SaysGzip(p)
        /\ resp[p].body = GzipEncode(<<104>>)
        /\ ret[p] = "nil"
        /\ w[p].body = GzipEncode(<<104>>)

(***************************************************************************)
(* C4.  Gzip gate: a captured response whose Content-Encoding value does   *)
(* not hold "gzip" in any letter case (a missing header included) is       *)
(* delivered with status, headers and body as captured; a value that holds *)
(* "gzip" in any letter case goes on to the later gates.                   *)
(***************************************************************************)
C4_GzipGate ==
    \A p \in Procs :
        Captured(p) =>
            IF SaysGzip(p)
            THEN exit[p] # "gzipgate"
            ELSE /\ exit[p] = "gzipgate"
                 /\ flushes[p] = 1
                 /\ w[p].ok => (Verbatim(p) /\ ret[p] = "nil")

\* a captured "Content-Encoding: br" response with a body, flushed at the gate
C4_Witness ==
    \E p \in Procs :
        /\ Captured(p)
        /\ Get(resp[p].header, "Content-Encoding") = S_br
        /\ exit[p] = "gzipgate"
        /\ w[p].ok
        /\ w[p].body = GzipEncode(<<104>>)
        /\ w[p].sent["Content-Encoding"] = <<S_br>>

(***************************************************************************)
(* C5.  Content-type gate: with ContentTypes non-empty and a captured      *)
(* Content-Type that starts with none of the prefixes, the response is     *)
(* delivered unmodified (status, headers with Content-Encoding, body) even *)
(* when the body is valid gzip; with ContentTypes empty every content type *)
(* passes this gate.                                                       *)
(***************************************************************************)
C5_ContentTypeGate ==
    \A p \in Procs :
        (Captured(p) /\ SaysGzip(p)) =>
            IF Len(ContentTypes) > 0
               /\ NoPrefixOf(ContentTypes, Get(resp[p].header, "Content-Type"))
            THEN /\ exit[p] = "ctgate"
                 /\ flushes[p] = 1
                 /\ w[p].ok => (Verbatim(p) /\ ret[p] = "nil")
            ELSE Len(ContentTypes) = 0 => exit[p] \notin {"gzipgate", "ctgate"}

\* config content_types ["text/"], application/json, a valid gzip body: the
\* client gets the compressed bytes and the Content-Encoding header
C5_Witness ==
    \E p \in Procs :
        /\ Captured(p)
        /\ ContentTypes = <<S_text>>
        /\ Get(resp[p].header, "Content-Type") = S_json
        /\ Get(resp[p].header, "Content-Encoding") = S_gzip
        /\ DecodesTo(resp[p].body, <<104, 101>>)
        /\ exit[p] = "ctgate"
        /\ w[p].body = resp[p].body
        /\ w[p].sent["Content-Encoding"] = <<S_gzip>>

(***************************************************************************)
(* C6.  Size gate: a captured response whose compressed body is longer     *)
(* than MaxSize is flushed unmodified even when the body is valid gzip; a  *)
(* body of length at most MaxSize is not stopped by this gate.             *)
(***************************************************************************)
C6_SizeGate ==
    \A p \in Procs :
        (Captured(p) /\ SaysGzip(p) /\ ContentTypePasses(p)) =>
            IF Len(resp[p].body) > MaxSize
            THEN /\ exit[p] = "sizegate"
                 /\ flushes[p] = 1
                 /\ w[p].ok => (Verbatim(p) /\ ret[p] = "nil")
            ELSE exit[p] \notin {"gzipgate", "ctgate", "sizegate"}

(***************************************************************************)
(* C7.  Downstream error: when the downstream stage, called with the       *)
(* recorder, returns an error, ServeHTTP returns that error, never calls   *)
(* WriteResponse, and nothing (status, headers, body) has reached the real *)
(* sink.                                                                   *)
(***************************************************************************)
C7_DownstreamError ==
    \A p \in Procs :
        (Done(p) /\ dsCalls[p] = <<"rec">> /\ dsErr[p] = "ErrDownstream")
        => /\ ret[p] = "ErrDownstream"
           /\ flushes[p] = 0
           /\ NothingSent(p)

(***************************************************************************)
(* C8.  Flush once: for a request on the buffering branch whose downstream *)
(* call returned nil, exactly one WriteResponse has happened when ServeHTTP*)
(* is over, whichever gate or decode outcome was taken.                    *)
(***************************************************************************)
C8_FlushOnce ==
    \A p \in Procs : Captured(p) => flushes[p] = 1

(***************************************************************************)
(* C9.  Zero max_size resolves to the default: once the settings are       *)
(* loaded (Caddyfile or JSON), provisioned and validated, MaxSize is not   *)
(* 0, so no request is served with MaxSize = 0.                            *)
(***************************************************************************)
C9_ZeroResolved ==
    phase = "serving" => MaxSize # 0

(***************************************************************************)
(* C10.  Validate returns an error exactly when MaxSize is negative, so    *)
(* whenever a request is handled MaxSize is not negative.                  *)
(***************************************************************************)
C10_ValidateNegative ==
    /\ phase = "serving" => MaxSize >= 0
    /\ (phase = "rejected" /\ loadErr = "max_size cannot be negative") => MaxSize < 0
    /\ \A p \in Procs : pc[p] # "idle" => (phase = "serving" /\ MaxSize >= 0)

\* a configuration with max_size -1 that Validate turned down
C10_Witness ==
    /\ phase = "rejected"
    /\ loadErr = "max_size cannot be negative"
    /\ MaxSize = 0 - 1

\* what the client of request p received and what ServeHTTP returned
Observed(p) == [delivered |-> Delivered(w[p]), ret |-> ret[p]]

\* every finished request ended as ServeHTTPOutcome computes for the revision
\* that handled it
OutcomeMatchesRun ==
    \A p \in Procs : Done(p) => Observed(p) = OutcomeOf(rev, p)

(***************************************************************************)
(* C11.  The two revisions of ServeHTTP are equivalent: for the settings,  *)
(* request path, connection and downstream behaviour of every handled      *)
(* request, revision 1 and revision 2 deliver the same status, headers and *)
(* body to the client and return the same error or success.                *)
(***************************************************************************)
C11_RevisionsEquivalent ==
    \A p \in Procs : Done(p) => OutcomeOf(1, p) = OutcomeOf(2, p)

\* request p is on the buffering branch and ServeHTTP has not returned
InFlightBuffered(p) == pc[p] \notin {"idle", "done", "next_direct"}

(***************************************************************************)
(* C12.  Ordering: while a request of the buffering branch is handled,     *)
(* the only step that changes what the client has received (status,        *)
(* headers, body) is the one final WriteResponse with which ServeHTTP      *)
(* returns: until then nothing has been sent and no flush has happened,    *)
(* and the headers that go out are the headers as finally set.             *)
(***************************************************************************)
C12_WritesOnlyInFlush ==
    [][\A p \in Procs :
          (InFlightBuffered(p) /\ Delivered(w'[p]) # Delivered(w[p]))
          => /\ NothingSent(p)
             /\ flushes[p] = 0
             /\ flushes'[p] = 1
             /\ pc'[p] = "done"
             /\ w'[p].sent = w'[p].header]_vars

\* the flush of request p left captured bytes unwritten on a broken connection
FlushFailed(p) ==
    /\ ~w[p].ok
    /\ rec[p].buf # 0
    /\ BufLen(bufs[rec[p].buf]) > 0

(***************************************************************************)
(* C13.  Flush error propagation (revision 1): whichever return flushes    *)
(* (the gzip, content-type or size gate, a decode failure, the rewrite),   *)
(* ServeHTTP calls WriteResponse once; when the write to the real sink     *)
(* fails it returns that write error, and when the flush goes through it   *)
(* returns nil with nothing left unwritten.                                *)
(***************************************************************************)
C13_FlushErrorPropagated ==
    \A p \in Procs :
        (Done(p) /\ flushes[p] > 0)
        => /\ flushes[p] = 1
           /\ exit[p] \in {"gzipgate", "ctgate", "sizegate", "reader", "copy", "rewrite"}
           /\ FlushFailed(p) => ret[p] = "ErrWrite"
           /\ ~FlushFailed(p) => (ret[p] = "nil" /\ BufLen(bufs[rec[p].buf]) = 0)

\* a body with a damaged gzip header, flushed as the decode fallback to a
\* broken connection: status line out, no body, the write error returned
C13_Witness ==
    \E p \in Procs :
        /\ Done(p)
        /\ exit[p] = "reader"
        /\ flushes[p] = 1
        /\ ~w[p].ok
        /\ w[p].status = 200
        /\ w[p].body = << >>
        /\ ret[p] = "ErrWrite"

\* the buffers some request in flight is using: the recorder's buffer and the
\* decode buffer
InUse(p) == IF pc[p] \in {"idle", "done"} THEN {} ELSE {rec[p].buf, outBuf[p]} \ {0}

\* no buffer is with two requests, or with a request and in the pool
Exclusive ==
    /\ \A p \in Procs : \A q \in Procs \ {p} : Held(p) \cap Held(q) = {}
    /\ \A p \in Procs : respBuf[p] # 0 => respBuf[p] # outBuf[p]
    /\ \A p \in Procs : InUse(p) = Held(p) /\ Held(p) \cap pool = {}
    /\ \A p \in Procs : InFlightBuffered(p) => respBuf[p] # 0
    /\ \A p \in Procs : pc[p] \in {"copy", "rewrite"} => outBuf[p] # 0

\* a step that puts buffers into the pool is the return of the request that
\* held them, after its downstream call returned and, unless that call failed,
\* after its flush
ReleasedAfterUse ==
    \A b \in pool' \ pool :
        \E p \in Procs :
            /\ b \in Held(p)
            /\ pc'[p] = "done"
            /\ dsErr'[p] # "none"
            /\ dsErr'[p] = "nil" => flushes'[p] = 1

(***************************************************************************)
(* C14.  Pool exclusivity: with two goroutines handling requests at the    *)
(* same time, in every interleaving a buffer taken from bufPool is held by *)
(* one request only and is not in the pool while it is held, and it goes   *)
(* back to the pool only when its request returns, after the downstream    *)
(* call that wrote into it and the flush that read from it.                *)
(***************************************************************************)
C14_PoolExclusive == []Exclusive /\ [][ReleasedAfterUse]_vars

\* goroutine 1 has returned after a rewrite, and its capture buffer is now
\* the decode buffer of goroutine 2, which is still in flight
C14_Witness ==
    /\ pc[1] = "done" /\ exit[1] = "rewrite"
    /\ pc[2] = "rewrite"
    /\ outBuf[2] = rec[1].buf
    /\ respBuf[2] # 0

\* the elements of a sequence
Range(q) == {q[i] : i \in 1..Len(q)}

\* the exits of ServeHTTP on the buffering branch of revision 1
BufferedExits ==
    {"next_rec", "gzipgate", "ctgate", "sizegate", "reader", "copy", "rewrite"}

(***************************************************************************)
(* C15.  Pool release on all exit paths (revision 1): when ServeHTTP has   *)
(* returned on the buffering branch (downstream error, flush at the gzip,  *)
(* content-type or size gate, decode failure, rewrite; flush error or not) *)
(* every buffer it got from bufPool, the capture buffer and the decode     *)
(* buffer when one was taken, has been Put exactly once and lies in the    *)
(* pool, and the request holds none.                                       *)
(***************************************************************************)
C15_ReleasedOnEveryExit ==
    \A p \in Procs :
        (Done(p) /\ dsCalls[p] = <<"rec">>)
        => /\ exit[p] \in BufferedExits
           /\ Len(gets[p]) = (IF exit[p] \in {"copy", "rewrite"} THEN 2 ELSE 1)
           /\ gets[p][1] = rec[p].buf
           /\ Cardinality(Range(gets[p])) = Len(gets[p])
           /\ Len(puts[p]) = Len(gets[p])
           /\ \A i \in 1..Len(gets[p]) : puts[p][Len(gets[p]) + 1 - i] = gets[p][i]
           /\ Range(gets[p]) \subseteq pool
           /\ Held(p) = {}

\* a body that fails to decode after the decode buffer was taken: both
\* buffers are back in the pool, the decode buffer first
C15_Witness ==
    \E p \in Procs :
        /\ Done(p)
        /\ exit[p] = "copy"
        /\ Len(gets[p]) = 2
        /\ puts[p] = <<gets[p][2], gets[p][1]>>
        /\ {gets[p][1], gets[p][2]} \subseteq pool

\* a is the tail of b
IsSuffix(a, b) == Len(a) <= Len(b) /\ SubSeq(b, Len(b) - Len(a) + 1, Len(b)) = a

\* what the gzip stream body decodes to
Decoded(body) == ReadMembers(body, 10, << >>).out

(***************************************************************************)
(* C16.  No residual bytes under pooled reuse: whatever earlier requests   *)
(* left in the buffers they put back, the body a request of the buffering  *)
(* branch delivers is made of bytes its own downstream call wrote (a tail  *)
(* of them, the whole when nothing was read off the buffer) or is their    *)
(* decoding; after a successful decode no byte of the compressed stream is *)
(* delivered.                                                              *)
(***************************************************************************)
C16_NoResidualBytes ==
    \A p \in Procs :
        (Done(p) /\ dsCalls[p] = <<"rec">>)
        => /\ \/ IsSuffix(w[p].body, resp[p].body)
              \/ w[p].body = Decoded(resp[p].body)
           /\ exit[p] = "rewrite" => w[p].body \in {<< >>, Decoded(resp[p].body)}
           /\ exit[p] \in {"gzipgate", "ctgate", "sizegate"} /\ w[p].ok
                => w[p].body = resp[p].body

\* goroutine 1 decoded "he" into its decode buffer and returned; goroutine 2
\* then got that buffer as its capture buffer and delivered its own "h"
C16_Witness ==
    /\ Done(1) /\ exit[1] = "rewrite"
    /\ Decoded(resp[1].body) = <<104, 101>>
    /\ Done(2) /\ exit[2] = "gzipgate"
    /\ gets[2] = <<gets[1][2]>>
    /\ bufs[gets[2][1]] = EmptyBuffer
    /\ resp[2].body = <<104>>
    /\ w[2].body = <<104>>

\* the headers the rewrite is not about
OtherHeaders == HeaderNames \ {"Content-Encoding", "Content-Length"}

(***************************************************************************)
(* C17.  Rewrite frame: for a captured response that passes the gates and  *)
(* decodes, the status line the client gets is the captured status and     *)
(* every header other than Content-Encoding and Content-Length goes out    *)
(* with the captured values; when ServeHTTP returns from the rewrite,      *)
(* Content-Encoding is gone and Content-Length is the decoded length.      *)
(***************************************************************************)
C17_RewriteFrame ==
    \A p \in Procs :
        /\ ( /\ Captured(p)
             /\ SaysGzip(p)
             /\ ContentTypePasses(p)
             /\ Len(resp[p].body) <= MaxSize
             /\ ~DecodeFails(resp[p].body) )
           => /\ w[p].status = resp[p].status
              /\ \A k \in OtherHeaders : w[p].sent[k] = resp[p].header[k]
        /\ (Done(p) /\ exit[p] = "rewrite")
           => /\ ~DecodeFails(resp[p].body)
              /\ w[p].status = resp[p].status
              /\ \A k \in OtherHeaders : w[p].sent[k] = resp[p].header[k]
              /\ w[p].sent["Content-Encoding"] = << >>
              /\ w[p].sent["Content-Length"] = <<Itoa(Len(Decoded(resp[p].body)))>>

\* a 404 response with a gzip body, Content-Type and X-Request-Id, rewritten:
\* the 404, the Content-Type and the X-Request-Id reach the client
C17_Witness ==
    \E p \in Procs :
        /\ Done(p) /\ exit[p] = "rewrite"
        /\ resp[p].status = 404
        /\ w[p].status = 404
        /\ resp[p].header["Content-Encoding"] = <<S_gzip>>
        /\ w[p].sent["Content-Type"] = <<S_texthtml>>
        /\ w[p].sent["X-Request-Id"] = resp[p].header["X-Request-Id"]
        /\ w[p].sent["X-Request-Id"] # << >>
        /\ w[p].sent["Content-Length"] = <<<<49>>>>
====
